---- MODULE Spec2Model ----
(***************************************************************************)
(* Model of solana_bot.py: the strategy thread (run_trading_loop ->        *)
(* trading_strategy) and the Flask request handler (trade) sharing the     *)
(* SQLite tables "tokens" and "trades".                                    *)
(*                                                                         *)
(* Units.  Amounts are in 1e-4 SOL (0.05 SOL = 500, 0.1 SOL = 1000, a      *)
(* balance of 1.0 SOL = 10000).  Prices, volumes and liquidities are       *)
(* integers; the prices used are multiples of 5 so that price * 0.8 is an  *)
(* integer as well.                                                        *)
(***************************************************************************)
EXTENDS Integers, Sequences, FiniteSets, TLC

\* Rows the trades table can hold before an INSERT fails (disk full).
MaxTrades == 2

\* Longest candidate list handed to apply_filters on its own.
MaxCandidates == 2

Threads == {"loop", "web"}

Min(a, b) == IF a <= b THEN a ELSE b

\* dict.get(key, default)
Get(d, key, default) == IF key \in DOMAIN d THEN d[key] ELSE default

\* The configuration load_config returned (config.json is not part of the
\* repository; these are the values of one deployment).
config ==
    [ coin_blacklist |-> {"SCAM"},
      filters |-> [ min_volume_24h    |-> 1,
                    min_liquidity_usd |-> 1,
                    min_price_usd     |-> 0,
                    max_price_change_1h |-> 10 ] ]

\* Line 42: float('inf'), above every price of the model.
Inf == 1000000

\* Lines 39-43: the configuration of a config.json that sets no filter and
\* no blacklist.
DefaultConfig ==
    [ coin_blacklist |-> {},
      filters |-> [ min_volume_24h    |-> 0,
                    min_liquidity_usd |-> 0,
                    min_price_usd     |-> 0,
                    max_price_change_1h |-> Inf ] ]

\* A config.json with a price floor and a ceiling that meet.
NarrowConfig ==
    [ coin_blacklist |-> {},
      filters |-> [ min_volume_24h    |-> 0,
                    min_liquidity_usd |-> 1,
                    min_price_usd     |-> 5,
                    max_price_change_1h |-> 5 ] ]

----------------------------------------------------------------------------
(* fetch_tokens_dexscreener                                                *)

\* float(s) for the strings the provider sends; float raises ValueError on
\* any string that IsNumber rejects.
IsNumber(s) == s \in {"0", "1", "5", "10", "50"}
Float(s) ==
    CASE s = "0"  -> 0
      [] s = "1"  -> 1
      [] s = "5"  -> 5
      [] s = "10" -> 10
      [] s = "50" -> 50

RawPair(a, sym, p, v, l) ==
    [ baseToken |-> [address |-> a, symbol |-> sym],
      priceUsd  |-> p,
      volume    |-> [h24 |-> v],
      liquidity |-> [usd |-> l] ]

\* The "pairs" entries the provider may send.
PairA0         == RawPair("A", "AAA", "0", "5", "5")
PairA5         == RawPair("A", "AAA", "5", "5", "5")
PairB5         == RawPair("B", "BBB", "5", "5", "5")
PairBLowVolume == RawPair("B", "BBB", "5", "0", "5")
PairScam       == RawPair("B", "SCAM", "5", "5", "5")
PairBExpensive == RawPair("B", "BBB", "50", "5", "5")
PairBMalformed == RawPair("B", "BBB", "n/a", "5", "5")

\* What requests.get + response.json() can give: a transport/HTTP error, a
\* document without "pairs", or a document with a "pairs" list.
Responses ==
    { [error |-> TRUE],
      [other |-> TRUE],
      [pairs |-> <<>>],
      [pairs |-> <<PairA0>>],
      [pairs |-> <<PairA5>>],
      [pairs |-> <<PairA5, PairB5>>],
      [pairs |-> <<PairBLowVolume, PairA5>>],
      [pairs |-> <<PairScam, PairBExpensive>>],
      [pairs |-> <<PairA5, PairBMalformed>>] }

\* d[key] exists and float() accepts it (KeyError and ValueError otherwise).
HasNumber(d, key) == key \in DOMAIN d /\ IsNumber(d[key])

Parseable(p) ==
    /\ HasNumber(p, "priceUsd")
    /\ "volume" \in DOMAIN p /\ HasNumber(p.volume, "h24")
    /\ "liquidity" \in DOMAIN p /\ HasNumber(p.liquidity, "usd")

ParsePair(p) ==
    [ token_address |-> p.baseToken.address,
      symbol        |-> p.baseToken.symbol,
      price_usd     |-> Float(p.priceUsd),
      volume_24h    |-> Float(p.volume.h24),
      liquidity_usd |-> Float(p.liquidity.usd) ]

\* Any exception (transport error, float() of a malformed field) ends in the
\* handler of line 93 and the function returns [].
fetch_tokens_dexscreener(data) ==
    IF "error" \in DOMAIN data THEN <<>>
    ELSE LET pairs == Get(data, "pairs", <<>>)
         IN  IF \E k \in 1..Len(pairs) : ~Parseable(pairs[k]) THEN <<>>
             ELSE [k \in 1..Len(pairs) |-> ParsePair(pairs[k])]

----------------------------------------------------------------------------
(* apply_filters                                                           *)

\* A faulty filter: the price ceiling of line 123 is left out.
PassesFiltersNoCeiling(token, cfg) ==
    /\ token.symbol \notin cfg.coin_blacklist
    /\ token.volume_24h >= cfg.filters.min_volume_24h
    /\ token.liquidity_usd >= cfg.filters.min_liquidity_usd
    /\ token.price_usd >= cfg.filters.min_price_usd

PassesFilters(token, cfg) ==
    /\ token.symbol \notin cfg.coin_blacklist
    /\ token.volume_24h >= cfg.filters.min_volume_24h
    /\ token.liquidity_usd >= cfg.filters.min_liquidity_usd
    /\ token.price_usd >= cfg.filters.min_price_usd
    /\ token.price_usd <= cfg.filters.max_price_change_1h

apply_filters(toks, cfg) ==
    SelectSeq(toks, LAMBDA token : PassesFilters(token, cfg))

----------------------------------------------------------------------------
(* check_solsniffer                                                        *)

OracleReply(s, fv, rg, cb) ==
    [score |-> s, fake_volume |-> fv, rugger |-> rg, cabal |-> cb]

\* What the safety oracle may answer: a transport/parse error or a document.
OracleResponses ==
    { [error |-> TRUE],
      OracleReply(90, FALSE, FALSE, FALSE),
      OracleReply(90, FALSE, TRUE, FALSE) }

\* A faulty scorer: the cabal flag of line 107 is not looked at.
check_solsniffer_no_cabal(data) ==
    IF "error" \in DOMAIN data THEN <<0, "Unknown">>
    ELSE LET score       == Get(data, "score", 0)
             fake_volume == Get(data, "fake_volume", FALSE)
             rugger      == Get(data, "rugger", FALSE)
         IN  <<score,
               IF score >= 85 /\ ~(fake_volume \/ rugger)
               THEN "Good" ELSE "Bad">>

\* Lines 99-113; the try covers the whole body, so every failure of the
\* request or of the parsing ends in the return of line 113.
check_solsniffer(data) ==
    IF "error" \in DOMAIN data THEN <<0, "Unknown">>
    ELSE LET score       == Get(data, "score", 0)
             fake_volume == Get(data, "fake_volume", FALSE)
             rugger      == Get(data, "rugger", FALSE)
             cabal       == Get(data, "cabal", FALSE)
         IN  <<score,
               IF score >= 85 /\ ~(fake_volume \/ rugger \/ cabal)
               THEN "Good" ELSE "Bad">>

----------------------------------------------------------------------------
(* State                                                                   *)

VARIABLES
    trades,           \* table trades, in insertion (trade_id) order
    tokens,           \* table tokens, keyed by token_address
    pc,               \* where each thread is
    filtered_tokens,  \* trading_strategy: the list being iterated
    i,                \* trading_strategy: 1-based index of the current token
    cycle_error,      \* what line 210 logged for the cycle ("none": nothing)
    call,             \* per thread, the execute_trade call it is in
    probe             \* one call of a function taken alone: arguments, result

vars == <<trades, tokens, pc, filtered_tokens, i, cycle_error, call, probe>>

Addr == {"A", "B"}

\* The wallet cannot be read (RPC down, no account): no balance is known.
WalletUnavailable == -1

\* What the wallet may answer when a cycle sizes a trade: unavailable, or a
\* balance (1.0 SOL and 10.0 SOL).
WalletBalances == {WalletUnavailable, 10000, 100000}

NoRow == [present |-> FALSE]

\* The thread is not inside execute_trade.
NoCall ==
    [token_address |-> "-", trade_type |-> "-", amount |-> 0, sent |-> "-", balance |-> 0]

\* An execute_trade call.  sent: the outcome of bot.send_message, known once
\* the send was tried.  balance: what the wallet held when the amount was
\* sized (0 for a call that sizes nothing from it); the code never reads it.
Call(token_address, trade_type, amount, balance) ==
    [token_address |-> token_address, trade_type |-> trade_type, amount |-> amount,
     sent |-> "pending", balance |-> balance]

\* No function is called on its own.
NoProbe == [fn |-> "-", done |-> FALSE]

\* The state after the module is loaded: init_db has run, both threads are
\* about to start.
InitProgram ==
    /\ trades = <<>>
    /\ tokens = [a \in Addr |-> NoRow]
    /\ pc = [t \in Threads |-> IF t = "loop" THEN "sleep" ELSE "idle"]
    /\ filtered_tokens = <<>>
    /\ i = 1
    /\ cycle_error = "none"
    /\ call = [t \in Threads |-> NoCall]

Init == InitProgram /\ probe = NoProbe

----------------------------------------------------------------------------
(* trading_strategy / run_trading_loop                                     *)

\* Line 182: the balance the strategy trades against.
PlaceholderBalance == 10000

\* Line 183: the ceiling of 0.1 SOL.
AmountCap == 1000

\* Line 183: min(balance * 0.05, 0.1).
TradeAmount == Min((PlaceholderBalance * 5) \div 100, AmountCap)

\* A faulty entry rule: the status is not looked at.
EntryRuleScoreOnly(score, status) == score >= 85

\* Line 181.
EntryRule(score, status) == score >= 85 /\ status = "Good"

\* Lines 192-193 (prices are multiples of 5, so the division is exact).
TakeProfitPrice(buy_price) == buy_price * 10
StopLossPrice(buy_price) == (buy_price * 8) \div 10

\* Line 198.
TakeProfitSellAmount(trade_amount) == (trade_amount * 85) \div 100

\* A faulty handler: only store errors are caught, anything else leaves
\* run_trading_loop and ends the thread.
ExceptHandlerStoreOnly(e) == IF e = "sqlite3.Error" THEN "sleep" ELSE "dead"

\* Lines 209-210 and 237-239: every Exception raised inside the cycle is
\* caught and logged, trading_strategy returns and the loop sleeps.
ExceptHandler(e) == "sleep"

\* An exception e leaves the for loop: the locals of trading_strategy are gone.
Raise(e) ==
    /\ cycle_error' = e
    /\ pc' = [pc EXCEPT !["loop"] = ExceptHandler(e)]
    /\ filtered_tokens' = <<>>
    /\ i' = 1

InCycle == pc["loop"] \in {"score", "send", "insert", "select", "next", "update"}

\* A faulty schedule: a timer starts a cycle every interval, whether or not
\* the previous call of trading_strategy has returned.
TimerFired == TRUE

\* Lines 236-239: run_trading_loop calls trading_strategy when the thread
\* starts and, in the same thread, each time the previous call has returned
\* and time.sleep(300) has ended.
LoopIdle == pc["loop"] = "sleep"

\* Lines 173-174 (and 237-238): a cycle starts.
StartCycle ==
    /\ LoopIdle
    /\ \E resp \in Responses :
          LET filtered == apply_filters(fetch_tokens_dexscreener(resp), config)
          IN  /\ filtered_tokens' = filtered
              /\ pc' = [pc EXCEPT !["loop"] = IF Len(filtered) = 0 THEN "update" ELSE "score"]
    /\ i' = 1
    /\ cycle_error' = "none"
    /\ UNCHANGED <<trades, tokens, call, probe>>

\* Lines 177-184 up to the call of execute_trade.
Score ==
    /\ pc["loop"] = "score"
    /\ \E data \in OracleResponses :
          LET r      == check_solsniffer(data)
              token  == filtered_tokens[i]
              scored == [solsniffer_score |-> r[1], solsniffer_status |-> r[2]] @@ token
          IN  /\ filtered_tokens' = [filtered_tokens EXCEPT ![i] = scored]
              /\ IF EntryRule(r[1], r[2])
                 THEN \E bal \in WalletBalances :
                         /\ call' = [call EXCEPT !["loop"] =
                                        Call(token.token_address, "buy", TradeAmount, bal)]
                         /\ pc' = [pc EXCEPT !["loop"] = "send"]
                 ELSE /\ pc' = [pc EXCEPT !["loop"] = "next"]
                      /\ UNCHANGED call
    /\ UNCHANGED <<trades, tokens, i, cycle_error, probe>>

\* Lines 187-206: the entry-price lookup and the exit evaluation.
Select ==
    /\ pc["loop"] = "select"
    /\ LET token == filtered_tokens[i]
           rows  == SelectSeq(trades, LAMBDA r :
                        r.token_address = token.token_address /\ r.trade_type = "buy")
       IN  \/ \* line 191: the condition's fetchone() consumes the only row,
              \* the second fetchone() is None and None[0] raises TypeError
              /\ Len(rows) > 0
              /\ Raise("TypeError")
              /\ UNCHANGED call
           \/ /\ Len(rows) = 0
              /\ LET buy_price         == token.price_usd
                     take_profit_price == TakeProfitPrice(buy_price)
                     stop_loss_price   == StopLossPrice(buy_price)
                     current_price     == token.price_usd
                     trade_amount      == TradeAmount
                 IN  /\ filtered_tokens' = [filtered_tokens EXCEPT ![i] =
                            [take_profit_price |-> take_profit_price,
                             stop_loss_price |-> stop_loss_price] @@ token]
                     /\ IF current_price >= take_profit_price
                        THEN /\ call' = [call EXCEPT !["loop"] =
                                    Call(token.token_address, "sell",
                                         TakeProfitSellAmount(trade_amount), 0)]
                             /\ pc' = [pc EXCEPT !["loop"] = "send"]
                        ELSE IF current_price <= stop_loss_price
                        THEN /\ call' = [call EXCEPT !["loop"] =
                                    Call(token.token_address, "sell", trade_amount, 0)]
                             /\ pc' = [pc EXCEPT !["loop"] = "send"]
                        ELSE /\ pc' = [pc EXCEPT !["loop"] = "next"]
                             /\ UNCHANGED call
              /\ UNCHANGED <<i, cycle_error>>
           \/ \* sqlite3.connect / execute fails
              /\ Raise("sqlite3.Error")
              /\ UNCHANGED call
    /\ UNCHANGED <<trades, tokens, probe>>

\* Line 176: the for loop moves to the next token, or ends.
NextToken ==
    /\ pc["loop"] = "next"
    /\ i' = i + 1
    /\ pc' = [pc EXCEPT !["loop"] = IF i + 1 > Len(filtered_tokens) THEN "update" ELSE "score"]
    /\ UNCHANGED <<trades, tokens, filtered_tokens, cycle_error, call, probe>>

----------------------------------------------------------------------------
(* update_db                                                               *)

SnapshotRow(token) ==
    [ symbol            |-> token.symbol,
      price_usd         |-> token.price_usd,
      volume_24h        |-> token.volume_24h,
      liquidity_usd     |-> token.liquidity_usd,
      solsniffer_score  |-> Get(token, "solsniffer_score", 0),
      solsniffer_status |-> Get(token, "solsniffer_status", "Unknown") ]

\* INSERT OR REPLACE of the tokens in list order (last_updated not modelled).
RECURSIVE update_db(_, _)
update_db(table, toks) ==
    IF Len(toks) = 0 THEN table
    ELSE update_db([table EXCEPT ![Head(toks).token_address] = SnapshotRow(Head(toks))],
                   Tail(toks))

\* Line 208, and the return to run_trading_loop.
Update ==
    /\ pc["loop"] = "update"
    /\ \/ /\ tokens' = update_db(tokens, filtered_tokens)
          /\ pc' = [pc EXCEPT !["loop"] = "sleep"]
          /\ filtered_tokens' = <<>>
          /\ i' = 1
          /\ UNCHANGED cycle_error
       \/ \* the store fails before the commit of line 140: nothing is written
          /\ Raise("sqlite3.Error")
          /\ UNCHANGED tokens
    /\ UNCHANGED <<trades, call, probe>>

----------------------------------------------------------------------------
(* execute_trade / send_telegram_notification                              *)

\* A faulty continuation: the exit evaluation is entered after every trade
\* of the loop, a Sell included.
AfterTradeAlwaysSelect(t) == IF t = "web" THEN "idle" ELSE "select"

\* Where a thread continues after execute_trade returns.
AfterTrade(t) ==
    IF t = "web" THEN "idle"
    ELSE IF call[t].trade_type = "buy" THEN "select" ELSE "next"

\* Lines 155-157 and 143-150: the command is sent; a failed send is logged
\* inside send_telegram_notification and not raised.
Send(t) ==
    /\ pc[t] = "send"
    /\ \E ok \in BOOLEAN :
          call' = [call EXCEPT ![t].sent = IF ok THEN "ok" ELSE "failed"]
    /\ pc' = [pc EXCEPT ![t] = "insert"]
    /\ UNCHANGED <<trades, tokens, filtered_tokens, i, cycle_error, probe>>

\* The row of lines 161-163 (the timestamp is not modelled).
TradeRow(c) ==
    [ token_address |-> c.token_address,
      trade_type    |-> c.trade_type,
      amount        |-> c.amount,
      price         |-> 0 ]

\* Line 70, trade_id INTEGER PRIMARY KEY AUTOINCREMENT: one more than the
\* largest id the table ever held, which is its last row's since no statement
\* of the program deletes from trades.
NextTradeId(log) == IF Len(log) = 0 THEN 1 ELSE log[Len(log)].trade_id + 1

\* A faulty INSERT: INSERT OR REPLACE keyed by the address, as update_db does
\* for the tokens table.
InsertOrReplaceTrade(log, c) ==
    IF \E k \in 1..Len(log) : log[k].token_address = c.token_address
    THEN [k \in 1..Len(log) |->
             IF log[k].token_address = c.token_address
             THEN [trade_id |-> log[k].trade_id] @@ TradeRow(c)
             ELSE log[k]]
    ELSE Append(log, [trade_id |-> NextTradeId(log)] @@ TradeRow(c))

\* Lines 161-164: INSERT INTO trades ... and commit.
InsertTrade(log, c) == Append(log, [trade_id |-> NextTradeId(log)] @@ TradeRow(c))

\* Lines 159-168: the trade is recorded, unless the store fails, which the
\* handler of line 167 logs; execute_trade returns.
Insert(t) ==
    /\ pc[t] = "insert"
    /\ \/ /\ Len(trades) < MaxTrades
          /\ trades' = InsertTrade(trades, call[t])
       \/ UNCHANGED trades
    /\ call' = [call EXCEPT ![t] = NoCall]
    /\ pc' = [pc EXCEPT ![t] = AfterTrade(t)]
    /\ UNCHANGED <<tokens, filtered_tokens, i, cycle_error, probe>>

----------------------------------------------------------------------------
(* trade (POST /trade)                                                     *)

\* The token addresses submitted through the dashboard form.
ManualAddr == {"A"}

\* The action values the dashboard form may carry.
Actions == {"buy", "BUY", "sell", "Sell"}

\* str.lower()
Lower(s) ==
    CASE s \in {"buy", "BUY"} -> "buy"
      [] s \in {"sell", "Sell"} -> "sell"

\* Line 230.
ManualAmount == 1000

\* Lines 227-231 up to the call of execute_trade (the page that
\* dashboard() renders afterwards changes no state).
TradeRequest ==
    /\ pc["web"] = "idle"
    /\ \E token_address \in ManualAddr, action \in Actions :
          call' = [call EXCEPT !["web"] =
                      Call(token_address, Lower(action), ManualAmount, 0)]
    /\ pc' = [pc EXCEPT !["web"] = "send"]
    /\ UNCHANGED <<trades, tokens, filtered_tokens, i, cycle_error, probe>>

----------------------------------------------------------------------------

LoopNext ==
    \/ StartCycle
    \/ Score
    \/ Select
    \/ NextToken
    \/ Update
    \/ Send("loop")
    \/ Insert("loop")

WebNext ==
    \/ TradeRequest
    \/ Send("web")
    \/ Insert("web")

Next == LoopNext \/ WebNext

Spec == Init /\ [][Next]_vars

\* The strategy thread alone, under the fairness its scheduling gives:
\* time.sleep(300) returns, so a sleeping loop thread starts its next cycle.
\* The request handler never writes pc["loop"], cycle_error or the locals of
\* trading_strategy; it reaches the loop only through rows of trades, and
\* the loop alone already meets both outcomes of line 191 (row, no row) and
\* of every INSERT (stored, failed).
FairLoopSpec == Init /\ [][LoopNext]_vars /\ WF_vars(StartCycle)

----------------------------------------------------------------------------
(* The functions taken alone: one call, on arguments drawn from bounded    *)
(* sets, in the state the module starts in.                                *)

\* The candidates handed to apply_filters: every combination of a symbol, a
\* price, a volume and a liquidity on either side of the thresholds.
Candidates ==
    { [token_address |-> "A", symbol |-> sym, price_usd |-> p,
       volume_24h |-> v, liquidity_usd |-> l] :
         sym \in {"AAA", "SCAM"}, p \in {0, 5, 50}, v \in {0, 1}, l \in {0, 1} }

CandidateLists == UNION { [1..n -> Candidates] : n \in 0..MaxCandidates }

Configs == {config, DefaultConfig, NarrowConfig}

FilterCalls ==
    { [fn |-> "apply_filters", done |-> FALSE, tokens |-> toks, config |-> cfg,
       result |-> <<>>] : toks \in CandidateLists, cfg \in Configs }

\* The answers handed to check_solsniffer: a failure, every document with a
\* score on either side of 85 and any flags, and documents that leave
\* fields out.
OracleDocuments ==
    { [error |-> TRUE], [score |-> 90], [score |-> 90, cabal |-> TRUE],
      [rugger |-> FALSE], [fake_volume |-> TRUE] }
    \cup { OracleReply(s, fv, rg, cb) :
              s \in {0, 84, 85, 100}, fv \in BOOLEAN, rg \in BOOLEAN, cb \in BOOLEAN }

ScorerCalls ==
    { [fn |-> "check_solsniffer", done |-> FALSE, data |-> d, result |-> <<>>] :
         d \in OracleDocuments }

\* The "pairs" entries handed to fetch_tokens_dexscreener: every numeric
\* field well-formed or malformed, and entries that leave one out.
RawPairs ==
    { RawPair("A", "AAA", p, v, l) :
         p \in {"5", "n/a"}, v \in {"5", "n/a"}, l \in {"5", "n/a"} }
    \cup { [baseToken |-> [address |-> "B", symbol |-> "BBB"],
            volume |-> [h24 |-> "5"], liquidity |-> [usd |-> "5"]],
          [baseToken |-> [address |-> "B", symbol |-> "BBB"],
            priceUsd |-> "5", volume |-> [h24 |-> "5"], liquidity |-> [m5 |-> "5"]] }

FetchCalls ==
    { [fn |-> "fetch_tokens_dexscreener", done |-> FALSE, data |-> d, result |-> <<>>] :
         d \in {[error |-> TRUE], [other |-> TRUE]}
                \cup { [pairs |-> ps] :
                         ps \in UNION { [1..n -> RawPairs] : n \in 0..MaxCandidates } } }

\* A config.json that also sets a minimum age of 24 hours; load_config
\* keeps the key and no line of the program reads it.
AgeConfig ==
    [ min_age_hours |-> 24,
      coin_blacklist |-> {},
      filters |-> [ min_volume_24h    |-> 5,
                    min_liquidity_usd |-> 5,
                    min_price_usd     |-> 1,
                    max_price_change_1h |-> 50 ] ]

\* A "pairs" entry with its createdAt.
RawPairCreated(a, sym, p, v, l, created) == [createdAt |-> created] @@ RawPair(a, sym, p, v, l)

\* Entries created 1 hour and 48 hours before the fetch, at the volume and
\* liquidity minimum of AgeConfig or below it, within its price bounds.
AgedPairs ==
    { RawPairCreated("A", "AAA", "5", v, "5", created) :
         v \in {"5", "1"}, created \in {"1h ago", "48h ago"} }

\* Lines 173-174 taken alone: fetch, then filter.
FetchAndFilterCalls ==
    { [fn |-> "fetch_and_filter", done |-> FALSE, data |-> [pairs |-> ps],
       config |-> AgeConfig, result |-> <<>>] :
         ps \in UNION { [1..n -> AgedPairs] : n \in 1..MaxCandidates } }

ProbeCalls == FilterCalls \cup ScorerCalls \cup FetchCalls \cup FetchAndFilterCalls

InitFunctions == InitProgram /\ probe \in ProbeCalls

\* Lines 115-126.
ApplyFilters ==
    /\ probe.fn = "apply_filters"
    /\ ~probe.done
    /\ probe' = [probe EXCEPT !.result = apply_filters(probe.tokens, probe.config),
                              !.done = TRUE]
    /\ UNCHANGED <<trades, tokens, pc, filtered_tokens, i, cycle_error, call>>

\* Lines 97-113.
CheckSolsniffer ==
    /\ probe.fn = "check_solsniffer"
    /\ ~probe.done
    /\ probe' = [probe EXCEPT !.result = check_solsniffer(probe.data), !.done = TRUE]
    /\ UNCHANGED <<trades, tokens, pc, filtered_tokens, i, cycle_error, call>>

\* Lines 75-95.
FetchTokens ==
    /\ probe.fn = "fetch_tokens_dexscreener"
    /\ ~probe.done
    /\ probe' = [probe EXCEPT !.result = fetch_tokens_dexscreener(probe.data),
                              !.done = TRUE]
    /\ UNCHANGED <<trades, tokens, pc, filtered_tokens, i, cycle_error, call>>

\* Lines 173-174.
FetchAndFilter ==
    /\ probe.fn = "fetch_and_filter"
    /\ ~probe.done
    /\ probe' = [probe EXCEPT
                    !.result = apply_filters(fetch_tokens_dexscreener(probe.data),
                                             probe.config),
                    !.done = TRUE]
    /\ UNCHANGED <<trades, tokens, pc, filtered_tokens, i, cycle_error, call>>

FunctionsNext ==
    \/ FetchTokens
    \/ FetchAndFilter
    \/ ApplyFilters
    \/ CheckSolsniffer

FunctionsSpec == InitFunctions /\ [][FunctionsNext]_vars

----------------------------------------------------------------------------
(* Vocabulary of the properties                                            *)

\* The rows of the log for one address, oldest first.
RowsFor(log, a) == SelectSeq(log, LAMBDA r : r.token_address = a)

\* Position (derived from the log): Open iff the most recent trade recorded
\* for the address is a buy.
HasOpenPosition(log, a) ==
    LET rs == RowsFor(log, a)
    IN  Len(rs) > 0 /\ rs[Len(rs)].trade_type = "buy"

\* The most recent buy recorded for an address (used where one exists).
LastBuy(log, a) ==
    LET bs == SelectSeq(log, LAMBDA r : r.token_address = a /\ r.trade_type = "buy")
    IN  bs[Len(bs)]

\* The step in which thread t sends the command of its call.
Dispatch(t) == pc[t] = "send" /\ pc'[t] = "insert"

\* The step in which execute_trade of thread t returns.
Returns(t) == pc[t] = "insert" /\ pc'[t] # "insert"

\* The step that ends a cycle of the strategy, by return or by exception.
CycleEnds == InCycle /\ ~InCycle'

\* The risk status known for the token of thread t's call: the status scored
\* this cycle for the loop, the stored snapshot's for a manual trade.
RiskStatus(t) ==
    IF t = "loop" THEN filtered_tokens[i].solsniffer_status
    ELSE IF tokens[call[t].token_address] = NoRow THEN "-"
    ELSE tokens[call[t].token_address].solsniffer_status

\* A buy call of the loop is under way (made, not yet returned).
LoopBuying == pc["loop"] \in {"send", "insert"} /\ call["loop"].trade_type = "buy"

----------------------------------------------------------------------------
(* Properties                                                              *)

\* C1: no Buy is dispatched, and no Buy trade is appended, for an address
\* whose most recent recorded trade is a Buy (an Open position).
C1_NoBuyWhileOpen ==
    [][\A t \in Threads :
          /\ (Dispatch(t) /\ call[t].trade_type = "buy")
                => ~HasOpenPosition(trades, call[t].token_address)
          /\ (Returns(t) /\ call[t].trade_type = "buy" /\ trades' # trades)
                => ~HasOpenPosition(trades, call[t].token_address)]_vars

\* C2: a Sell is dispatched only when the log holds a Buy for the address
\* with no Sell for it recorded after that Buy.
C2_SellOnlyWhenOpen ==
    [][\A t \in Threads :
          (Dispatch(t) /\ call[t].trade_type = "sell")
             => HasOpenPosition(trades, call[t].token_address)]_vars

\* C3, as claimed: no operation dispatches a Buy for a token whose risk
\* status is Bad or Unknown.
C3_NoBuyUnlessGood ==
    [][\A t \in Threads :
          (Dispatch(t) /\ call[t].trade_type = "buy")
             => RiskStatus(t) \notin {"Bad", "Unknown"}]_vars

\* C3, amended: every Buy of the Strategy Loop is for a token that was
\* scored Good, with a score of at least 85, in this cycle.
C3_LoopBuysOnlyGood ==
    LoopBuying =>
        /\ filtered_tokens[i].token_address = call["loop"].token_address
        /\ filtered_tokens[i].solsniffer_status = "Good"
        /\ filtered_tokens[i].solsniffer_score >= 85

C3_Witness ==
    /\ pc["loop"] = "insert"
    /\ call["loop"].trade_type = "buy"
    /\ filtered_tokens[i].solsniffer_status = "Good"

\* C4: a dispatch whose send failed appends no Trade: the log is the same
\* when execute_trade returns as before.
C4_FailedSendRecordsNothing ==
    [][\A t \in Threads :
          (Returns(t) /\ call[t].sent = "failed") => trades' = trades]_vars

\* C5: when a cycle ends, every filtered token of the cycle has been
\* processed (it carries the score attached in its iteration): an error in
\* one token's iteration does not skip the tokens after it.
C5_AllTokensProcessed ==
    [][CycleEnds =>
          \A j \in 1..Len(filtered_tokens) :
              "solsniffer_score" \in DOMAIN filtered_tokens[j]]_vars

\* C6: whenever the loop thread is not inside a cycle (it has not started
\* one yet, or the last one ended, failed or not) it goes on to start one.
C6_NextCycleStarts == (~InCycle) ~> InCycle

C6_Witness ==
    /\ pc["loop"] = "sleep"
    /\ cycle_error = "TypeError"
    /\ Len(trades) > 0

\* C7: a cycle whose store accesses succeed ends with the snapshot of every
\* filtered token (score and status of this cycle) in the tokens table.
C7_CycleEndsWithUpsert ==
    [][(CycleEnds /\ cycle_error' # "sqlite3.Error") =>
          \A j \in 1..Len(filtered_tokens) :
              (\A k \in (j+1)..Len(filtered_tokens) :
                   filtered_tokens[k].token_address # filtered_tokens[j].token_address)
              => /\ "solsniffer_score" \in DOMAIN filtered_tokens[j]
                 /\ tokens'[filtered_tokens[j].token_address]
                        = SnapshotRow(filtered_tokens[j])]_vars

\* The Sell call the loop makes next is for address a and amount amt.
SellDispatched(a, amt) ==
    /\ pc'["loop"] = "send"
    /\ call'["loop"].token_address = a
    /\ call'["loop"].trade_type = "sell"
    /\ call'["loop"].amount = amt

\* C8: when the exit rule is evaluated (the store answering) for a token
\* with an Open position of entry price P and entry amount Q: price >= 10*P
\* gives one Sell of 85% of Q; otherwise price <= 0.8*P gives one Sell of Q;
\* otherwise no Sell.
C8_ExitRule ==
    [][(/\ pc["loop"] = "select"
        /\ pc'["loop"] # "select"
        /\ cycle_error' # "sqlite3.Error"
        /\ HasOpenPosition(trades, filtered_tokens[i].token_address))
       => LET a     == filtered_tokens[i].token_address
              price == filtered_tokens[i].price_usd
              entry == LastBuy(trades, a)
          IN  IF price >= entry.price * 10
              THEN SellDispatched(a, (entry.amount * 85) \div 100)
              ELSE IF price * 10 <= entry.price * 8
              THEN SellDispatched(a, entry.amount)
              ELSE pc'["loop"] # "send"]_vars

\* C9: a filtered token scored Bad or Unknown in this cycle that has an Open
\* position whose take-profit or stop-loss price is reached gets its Sell
\* dispatched in its iteration.
C9_ExitForEveryOpenPosition ==
    [][(/\ pc["loop"] = "score"
        /\ pc'["loop"] # "score"
        /\ filtered_tokens'[i].solsniffer_status \in {"Bad", "Unknown"}
        /\ HasOpenPosition(trades, filtered_tokens[i].token_address)
        /\ LET price == filtered_tokens[i].price_usd
               entry == LastBuy(trades, filtered_tokens[i].token_address)
           IN  price >= entry.price * 10 \/ price * 10 <= entry.price * 8)
       => /\ pc'["loop"] = "send"
          /\ call'["loop"].trade_type = "sell"
          /\ call'["loop"].token_address = filtered_tokens[i].token_address]_vars

\* C10: the amount of a Buy of the loop is min(5% of the wallet balance at
\* that cycle, 0.1 SOL).
C10_BuyAmountFromBalance ==
    (LoopBuying /\ call["loop"].balance # WalletUnavailable) =>
        call["loop"].amount = Min((call["loop"].balance * 5) \div 100, 1000)

\* C11: in a cycle in which the wallet balance is unavailable the loop makes
\* no Buy call: no Buy is sized from a default or made-up balance.
C11_NoBuyWithoutBalance ==
    ~(LoopBuying /\ call["loop"].balance = WalletUnavailable)

\* Thread t is inside a dispatch for address a: its command was sent and its
\* Trade is not yet appended.
DispatchInProgress(t, a) == pc[t] = "insert" /\ call[t].token_address = a

\* C12: two dispatches for the same address are never in progress at the
\* same time (the loop's and a manual one).
C12_DispatchesSerialised ==
    \A a \in Addr : ~(DispatchInProgress("loop", a) /\ DispatchInProgress("web", a))

\* C13: the result of the filter is the subsequence, in input order, of the
\* candidates that meet the five rules (symbol not blacklisted, volume,
\* liquidity and price at or above their minimum, price at or below the
\* max-price-change bound); the call leaves its arguments and both tables
\* as they were.
C13_FilterIsExactSubsequence ==
    [][(probe.fn = "apply_filters" /\ ~probe.done /\ probe'.done) =>
          LET in  == probe.tokens
              cfg == probe.config
              out == probe'.result
              Kept == { j \in 1..Len(in) :
                          /\ in[j].symbol \notin cfg.coin_blacklist
                          /\ in[j].volume_24h >= cfg.filters.min_volume_24h
                          /\ in[j].liquidity_usd >= cfg.filters.min_liquidity_usd
                          /\ in[j].price_usd >= cfg.filters.min_price_usd
                          /\ in[j].price_usd <= cfg.filters.max_price_change_1h }
          IN  /\ Len(out) = Cardinality(Kept)
              /\ \A k \in 1..Len(out) :
                     \E j \in Kept : /\ out[k] = in[j]
                                     /\ Cardinality({m \in Kept : m < j}) = k - 1
              /\ probe'.tokens = in
              /\ probe'.config = cfg
              /\ trades' = trades
              /\ tokens' = tokens]_vars

C13_Witness ==
    /\ probe.fn = "apply_filters"
    /\ probe.done
    /\ Len(probe.tokens) = 2
    /\ probe.result = <<probe.tokens[2]>>
    /\ probe.tokens[1].price_usd > probe.config.filters.max_price_change_1h

\* Flag f is set in the oracle's document d.
FlagSet(d, f) == f \in DOMAIN d /\ d[f]

\* C14: for an oracle document the scorer returns the document's score (0
\* when it has none) with status Good iff the score is at least 85 and none
\* of fake_volume, rugger, cabal is set, and Bad otherwise; for a transport
\* or parse failure it returns (0, Unknown).
C14_ScorerStatus ==
    [][(probe.fn = "check_solsniffer" /\ ~probe.done /\ probe'.done) =>
          LET d == probe.data
              r == probe'.result
              s == IF "score" \in DOMAIN d THEN d.score ELSE 0
          IN  IF "error" \in DOMAIN d
              THEN r = <<0, "Unknown">>
              ELSE /\ r[1] = s
                   /\ r[2] \in {"Good", "Bad"}
                   /\ r[2] = "Good" <=>
                         /\ s >= 85
                         /\ ~FlagSet(d, "fake_volume")
                         /\ ~FlagSet(d, "rugger")
                         /\ ~FlagSet(d, "cabal")]_vars

C14_Witness ==
    /\ probe.fn = "check_solsniffer"
    /\ probe.done
    /\ probe.data = OracleReply(100, FALSE, FALSE, TRUE)
    /\ probe.result = <<100, "Bad">>

\* C15: the trade log is append-only with growing ids: every step keeps the
\* rows the log held, unchanged and in place, and a row it adds has an id
\* greater than the id of every row before it.
C15_AppendOnlyLog ==
    [][/\ Len(trades') >= Len(trades)
       /\ \A k \in 1..Len(trades) : trades'[k] = trades[k]
       /\ \A k \in (Len(trades) + 1)..Len(trades') :
              \A m \in 1..(k - 1) : trades'[k].trade_id > trades'[m].trade_id]_vars

C15_Witness ==
    /\ Len(trades) = 2
    /\ trades[1].token_address = trades[2].token_address
    /\ trades[2].trade_id > trades[1].trade_id

\* The price most recently known for the token of thread t's call: the price
\* fetched this cycle for the loop, the stored snapshot's for a manual
\* trade, 0 when the address has no snapshot.
KnownPrice(t) ==
    IF t = "loop" THEN filtered_tokens[i].price_usd
    ELSE IF tokens[call[t].token_address] = NoRow THEN 0
    ELSE tokens[call[t].token_address].price_usd

\* C16: a Trade appended after a successful send carries the most recently
\* known price of its address at dispatch (0 only when none is known).
C16_TradeCarriesKnownPrice ==
    [][\A t \in Threads :
          (Returns(t) /\ call[t].sent = "ok" /\ Len(trades') > Len(trades))
             => trades'[Len(trades')].price = KnownPrice(t)]_vars

\* The lists a cycle can start with.
FreshLists ==
    { apply_filters(fetch_tokens_dexscreener(resp), config) : resp \in Responses }

\* A step that starts a cycle: the loop has a freshly fetched and filtered
\* list (no token scored yet) and stands at its first token, or at the
\* upsert when the list is empty.
CycleStarts ==
    /\ pc'["loop"] = IF Len(filtered_tokens') = 0 THEN "update" ELSE "score"
    /\ i' = 1
    /\ cycle_error' = "none"
    /\ UNCHANGED <<trades, tokens, call>>
    /\ filtered_tokens' \in FreshLists

\* C17: a cycle starts only when no cycle is in progress, so at most one is
\* in progress at any time, however long the steps of a cycle take.
C17_NoCycleOverlap == [][CycleStarts => ~InCycle]_vars

\* The loop is still inside the send of its first trade while two manual
\* trades have been recorded.
C17_Witness ==
    /\ InCycle
    /\ pc["loop"] = "send"
    /\ Len(trades) = 2
    /\ \A k \in 1..2 : trades[k].amount = ManualAmount

\* The value of a numeric field when a missing or malformed one counts as 0.
CoercedNumber(d, key) == IF HasNumber(d, key) THEN Float(d[key]) ELSE 0

\* C18: for a response with a "pairs" list the client returns one record per
\* entry, in order, with a missing or malformed price, volume or liquidity
\* read as 0 and every other field as sent.
C18_MalformedFieldCoerced ==
    [][(/\ probe.fn = "fetch_tokens_dexscreener"
        /\ ~probe.done
        /\ probe'.done
        /\ "pairs" \in DOMAIN probe.data)
       => LET pairs == probe.data.pairs
              out   == probe'.result
          IN  /\ Len(out) = Len(pairs)
              /\ \A k \in 1..Len(pairs) :
                     out[k] = [ token_address |-> pairs[k].baseToken.address,
                                symbol        |-> pairs[k].baseToken.symbol,
                                price_usd     |-> CoercedNumber(pairs[k], "priceUsd"),
                                volume_24h    |-> CoercedNumber(Get(pairs[k], "volume", <<>>), "h24"),
                                liquidity_usd |-> CoercedNumber(Get(pairs[k], "liquidity", <<>>), "usd") ]]_vars

\* The age in hours, at the fetch, of an entry created at createdAt.
AgeHours(created) ==
    CASE created = "1h ago"  -> 1
      [] created = "48h ago" -> 48

\* C19: fetched and filtered under a minimum age, a response of candidates
\* that all meet the volume, liquidity and price thresholds yields exactly
\* those at least as old as the minimum age, in order: the one created 1
\* hour ago is filtered out, the one created 48 hours ago passes.
C19_YoungCandidateFilteredOut ==
    [][(/\ probe.fn = "fetch_and_filter"
        /\ ~probe.done
        /\ probe'.done
        /\ \A k \in 1..Len(probe.data.pairs) :
               PassesFilters(ParsePair(probe.data.pairs[k]), probe.config))
       => LET pairs == probe.data.pairs
              old   == SelectSeq(pairs, LAMBDA p :
                          AgeHours(p.createdAt) >= probe.config.min_age_hours)
          IN  probe'.result = [k \in 1..Len(old) |-> ParsePair(old[k])]]_vars

\* C20: the loop makes a Sell call only in the iteration of a token it has
\* just bought: the call is made from the exit evaluation, for the current
\* token, which was scored Good with a score of at least 85 in this cycle;
\* and the exit evaluation is entered only by the return of the loop's Buy
\* call for that same token.
C20_LoopSellsOnlyAfterItsBuy ==
    [][/\ (call'["loop"].trade_type = "sell" /\ call["loop"].trade_type # "sell")
           => /\ pc["loop"] = "select"
              /\ i' = i
              /\ call'["loop"].token_address = filtered_tokens[i].token_address
              /\ filtered_tokens[i].solsniffer_status = "Good"
              /\ filtered_tokens[i].solsniffer_score >= 85
       /\ (pc'["loop"] = "select" /\ pc["loop"] # "select")
           => /\ Returns("loop")
              /\ call["loop"].trade_type = "buy"
              /\ call["loop"].sent # "pending"
              /\ i' = i
              /\ call["loop"].token_address = filtered_tokens[i].token_address]_vars

\* A Sell call of the loop has been sent.
C20_Witness ==
    /\ pc["loop"] = "insert"
    /\ call["loop"].trade_type = "sell"
    /\ call["loop"].token_address = filtered_tokens[i].token_address

====
